---- MODULE Spec2Model ----
(***************************************************************************)
(* Model of tf_hub_generative_image_module.py: the hypersphere             *)
(* interpolation routine, and the script run (optional import, the         *)
(* interpolation pipeline, target image acquisition, latent inversion).    *)
(*                                                                         *)
(* float32 tensors are modelled as fixed-point numbers: a finite value x   *)
(* is the record [k |-> "num", v |-> round(x * Scale)]; division by zero   *)
(* yields the IEEE non-finite values [k |-> "inf"] and [k |-> "nan"], as   *)
(* the tensor division of the source does (it never raises).               *)
(***************************************************************************)
EXTENDS Integers, Sequences, FiniteSets, TLC

\* ----------------------------- bounds ---------------------------------
\* resolution of the fixed-point numbers
Scale == 1000
\* rounding tolerance, in units of 1/Scale
Tol == 10
\* input vectors have integer coordinates in -MaxCoord..MaxCoord
MaxCoord == 1
\* dimensionality of the vectors of the model
Dim == 2
\* largest num_steps passed to interpolate_hypersphere
MaxSteps == 3
\* largest num_optimization_steps passed to find_closest_latent_vector
MaxOptSteps == 10

\* --------------------------- float arithmetic -------------------------
Abs(x) == IF x < 0 THEN -x ELSE x

Sgn(x) == IF x < 0 THEN -1 ELSE IF x > 0 THEN 1 ELSE 0

\* a / b rounded to the nearest integer (b > 0)
RDiv(a, b) == (2 * a + b) \div (2 * b)

RECURSIVE SqrtSearch(_, _, _)
SqrtSearch(x, lo, hi) ==
    IF lo >= hi THEN lo
    ELSE LET mid == (lo + hi + 1) \div 2
         IN  IF mid * mid <= x THEN SqrtSearch(x, mid, hi)
                               ELSE SqrtSearch(x, lo, mid - 1)

\* the integer nearest to the square root of x (x >= 0)
ISqrt(x) ==
    LET r == SqrtSearch(x, 0, 46340)
    IN  IF x - r * r > r THEN r + 1 ELSE r

Num(n) == [k |-> "num", v |-> n]
NaN == [k |-> "nan", v |-> 0]
Inf(s) == [k |-> "inf", v |-> s]

\* the float of a Python int
FromInt(i) == Num(i * Scale)

IsFinite(a) == a.k = "num"

FSign(a) == Sgn(a.v)

FNeg(a) == IF a.k = "nan" THEN NaN ELSE [k |-> a.k, v |-> -a.v]

FAdd(a, b) ==
    IF a.k = "nan" \/ b.k = "nan" THEN NaN
    ELSE IF a.k = "inf" /\ b.k = "inf"
         THEN IF a.v = b.v THEN a ELSE NaN
    ELSE IF a.k = "inf" THEN a
    ELSE IF b.k = "inf" THEN b
    ELSE Num(a.v + b.v)

FSub(a, b) == FAdd(a, FNeg(b))

FMul(a, b) ==
    IF a.k = "nan" \/ b.k = "nan" THEN NaN
    ELSE IF a.k = "inf" \/ b.k = "inf"
         THEN IF FSign(a) * FSign(b) = 0 THEN NaN
              ELSE Inf(FSign(a) * FSign(b))
    ELSE Num(Sgn(a.v * b.v) * RDiv(Abs(a.v * b.v), Scale))

FDiv(a, b) ==
    IF a.k = "nan" \/ b.k = "nan" THEN NaN
    ELSE IF a.k = "inf"
         THEN IF b.k = "inf" THEN NaN
              ELSE Inf(a.v * (IF b.v < 0 THEN -1 ELSE 1))
    ELSE IF b.k = "inf" THEN Num(0)
    ELSE IF b.v = 0
         THEN IF a.v = 0 THEN NaN ELSE Inf(Sgn(a.v))
    ELSE Num(Sgn(a.v) * Sgn(b.v) * RDiv(Abs(a.v) * Scale, Abs(b.v)))

\* ------------------------------ tensors -------------------------------
VecAdd(a, b) == [i \in 1..Len(a) |-> FAdd(a[i], b[i])]

VecSub(a, b) == [i \in 1..Len(a) |-> FSub(a[i], b[i])]

\* tensor * scalar
VecScale(a, s) == [i \in 1..Len(a) |-> FMul(a[i], s)]

\* tensor / scalar
VecDiv(a, s) == [i \in 1..Len(a) |-> FDiv(a[i], s)]

RECURSIVE SumSq(_, _)
SumSq(a, i) == IF i = 0 THEN 0 ELSE a[i].v * a[i].v + SumSq(a, i - 1)

\* tf.norm: the Euclidean norm of a tensor
Norm(a) ==
    IF \E i \in 1..Len(a) : a[i].k = "nan" THEN NaN
    ELSE IF \E i \in 1..Len(a) : a[i].k = "inf" THEN Inf(1)
    ELSE Num(ISqrt(SumSq(a, Len(a))))


\* --------------------- interpolate_hypersphere ------------------------
\* the steps of the function, and the locals of its body
VARIABLES ipc, v1, v2, num_steps, v1_norm, v2_norm, v2_normalized,
          vectors, step, interpolated_norm, stacked

ivars == <<ipc, v1, v2, num_steps, v1_norm, v2_norm, v2_normalized,
           vectors, step, interpolated_norm, stacked>>

\* the script run: the position in the script, the environment, the globals
\* and the locals of find_closest_latent_vector
VARIABLES pc, error, colab_available, files_defined, image_from_module_space,
          num_optimization_steps, optimizer, sessions, interpolated_images_out,
          target_image, vector, trajectory, it, im_out, loss_out,
          images, losses, printed, result

svars == <<pc, error, colab_available, files_defined, image_from_module_space,
           num_optimization_steps, optimizer, sessions, interpolated_images_out,
           target_image, vector, trajectory, it, im_out, loss_out,
           images, losses, printed, result>>

vars == <<ivars, svars>>

\* a tensor with the given integer coordinates
Tensor(c) == [i \in 1..Len(c) |-> FromInt(c[i])]

IntVectors == [1..Dim -> (-MaxCoord)..MaxCoord]

InputVectors == {Tensor(c) : c \in IntVectors}

\* the inputs of the scenario v1 = [1,0], v2 = [0,2]
ScenarioV1 == Tensor(<<1, 0>>)

ScenarioV2 == Tensor(<<0, 2>>)

\* v * (to_norm / from_norm)
Rescale(v, from_norm, to_norm) == VecScale(v, FDiv(to_norm, from_norm))

\* v2 left as it is
V2Normalized_NotRescaled(a, b) == b

\* v2_normalized = v2 * (v1_norm / v2_norm)
V2Normalized(a, b) == Rescale(b, Norm(b), Norm(a))

\* the fraction taken of num_steps
Interpolated_OverNumSteps(a, b, s, n) ==
    VecAdd(a, VecDiv(VecScale(VecSub(b, a), FromInt(s)), FromInt(n)))

\* interpolated = v1 + (v2_normalized - v1) * step / (num_steps - 1)
Interpolated(a, b, s, n) ==
    VecAdd(a, VecDiv(VecScale(VecSub(b, a), FromInt(s)), FromInt(n - 1)))

\* the interpolated point appended without projecting it to the sphere
InterpolatedNormalized_NotProjected(a, b, a_norm, s, n) == Interpolated(a, b, s, n)

\* the body of the loop: the point appended for one value of step
InterpolatedNormalized(a, b, a_norm, s, n) ==
    LET interpolated == Interpolated(a, b, s, n)
    IN  Rescale(interpolated, Norm(interpolated), a_norm)

\* the whole function, as the pipelines of the script call it
interpolate_hypersphere(a, b, n) ==
    [i \in 1..n |-> InterpolatedNormalized(a, V2Normalized(a, b), Norm(a), i - 1, n)]

\* a call interpolate_hypersphere(v1, v2, num_steps)
IH_Call ==
    /\ ipc = "start"
    /\ \/ v1 \in InputVectors /\ v2 \in InputVectors
       \/ v1 = ScenarioV1 /\ v2 = ScenarioV2
    /\ num_steps \in 1..MaxSteps
    /\ v1_norm = Num(0) /\ v2_norm = Num(0) /\ v2_normalized = <<>>
    /\ vectors = <<>> /\ step = 0 /\ interpolated_norm = Num(0) /\ stacked = <<>>

IH_Normalize ==
    /\ ipc = "start"
    /\ v1_norm' = Norm(v1)
    /\ v2_norm' = Norm(v2)
    /\ v2_normalized' = V2Normalized(v1, v2)
    /\ vectors' = <<>>
    /\ step' = 0
    /\ ipc' = "loop"
    /\ UNCHANGED <<v1, v2, num_steps, interpolated_norm, stacked>>
    /\ UNCHANGED svars

IH_Step ==
    /\ ipc = "loop" /\ step < num_steps
    /\ interpolated_norm' = Norm(Interpolated(v1, v2_normalized, step, num_steps))
    /\ vectors' = Append(vectors,
           InterpolatedNormalized(v1, v2_normalized, v1_norm, step, num_steps))
    /\ step' = step + 1
    /\ UNCHANGED <<ipc, v1, v2, num_steps, v1_norm, v2_norm, v2_normalized, stacked>>
    /\ UNCHANGED svars

IH_Return ==
    /\ ipc = "loop" /\ step = num_steps
    /\ stacked' = vectors
    /\ ipc' = "returned"
    /\ UNCHANGED <<v1, v2, num_steps, v1_norm, v2_norm, v2_normalized,
                   vectors, step, interpolated_norm>>
    /\ UNCHANGED svars

\* the script is not running
ScriptIdle ==
    /\ pc = "idle" /\ error = "none"
    /\ colab_available = FALSE /\ files_defined = FALSE
    /\ image_from_module_space = TRUE /\ num_optimization_steps = 0
    /\ optimizer = <<>> /\ sessions = 0 /\ interpolated_images_out = <<>>
    /\ target_image = <<>> /\ vector = <<>> /\ trajectory = <<>> /\ it = 0
    /\ im_out = <<>> /\ loss_out = Num(0)
    /\ images = <<>> /\ losses = <<>> /\ printed = <<>> /\ result = <<>>

InitInterp == IH_Call /\ ScriptIdle

NextInterp == IH_Normalize \/ IH_Step \/ IH_Return

SpecInterp == InitInterp /\ [][NextInterp]_vars

\* ------------------------------ the script ----------------------------
\* latent_dim = 512 in the source; the model's latent vectors have Dim coordinates
latent_dim == Dim

\* num_steps of the call in interpolate_between_vectors
InterpolationSteps == 25

\* tf.random_normal([latent_dim], seed): a fixed vector for each seed
RandomNormal(seed) == Tensor([i \in 1..latent_dim |-> ((seed * i) % 5) - 2])

\* a latent vector of norm sqrt(latent_dim)
UnitLatent == Tensor([i \in 1..latent_dim |-> 1])

\* the values the trainable vector takes
LatentSamples == {RandomNormal(5), UnitLatent}

\* the levels of a pixel channel, in [0, 1]
PixelLevels == {Num(0), Num(Scale)}

\* module(vector): the generator, a fixed function from latent vectors to
\* RGB images (an image is abstracted to the three channels of one pixel)
Generate(z) ==
    [c \in 1..3 |-> IF z[((c - 1) % Len(z)) + 1].v > 0 THEN Num(Scale) ELSE Num(0)]

\* an image array: rank 3 with its channels, or rank 2 (grayscale)
ImageArray(r, p) == [rank |-> r, px |-> p]

\* the arrays upload_image can return: grayscale, RGB or RGBA
UploadedImages ==
    {ImageArray(2, <<g>>) : g \in PixelLevels}
      \cup {ImageArray(3, p) : p \in [1..3 -> PixelLevels]}
      \cup {ImageArray(3, p) : p \in [1..4 -> PixelLevels]}

\* the target compared in full, alpha channel included
TargetSlice_AllChannels(t) == t.px

\* target_image[:,:,:3]
TargetSlice(t) == SubSeq(t.px, 1, IF Len(t.px) < 3 THEN Len(t.px) ELSE 3)

RECURSIVE SumAbsDiff(_, _, _)
SumAbsDiff(a, b, i) ==
    IF i = 0 THEN 0 ELSE Abs(a[i].v - b[i].v) + SumAbsDiff(a, b, i - 1)

\* tf.losses.absolute_difference: the mean of the absolute differences
AbsoluteDifference(labels, predictions) ==
    FDiv(Num(SumAbsDiff(labels, predictions, Len(labels))), FromInt(Len(labels)))

\* tf.abs(tf.norm(vector) - np.sqrt(latent_dim))
Regularizer(z) ==
    LET d == FSub(Norm(z), Num(ISqrt(latent_dim * Scale * Scale)))
    IN  IF IsFinite(d) THEN Num(Abs(d.v)) ELSE d

\* loss = target_image_difference + regularizer
Loss(image, t, z) ==
    FAdd(AbsoluteDifference(image, TargetSlice(t)), Regularizer(z))

\* the grid of display_images holds every image: len(images) // 5 rows of 5
DisplayImagesFits(n) == n \div 5 >= 2 /\ n % 5 = 0

InterpIdle ==
    /\ ipc = "idle" /\ v1 = <<>> /\ v2 = <<>> /\ num_steps = 0
    /\ v1_norm = Num(0) /\ v2_norm = Num(0) /\ v2_normalized = <<>>
    /\ vectors = <<>> /\ step = 0 /\ interpolated_norm = Num(0) /\ stacked = <<>>

\* the start of a run of the script
ScriptStart ==
    /\ pc = "import" /\ error = "none"
    /\ colab_available \in BOOLEAN
    /\ files_defined = FALSE
    /\ image_from_module_space \in BOOLEAN
    /\ num_optimization_steps \in 0..MaxOptSteps
    /\ optimizer \in [LatentSamples -> LatentSamples]
    /\ sessions = 0 /\ interpolated_images_out = <<>>
    /\ target_image = <<>> /\ vector = <<>> /\ trajectory = <<>> /\ it = 0
    /\ im_out = <<>> /\ loss_out = Num(0)
    /\ images = <<>> /\ losses = <<>> /\ printed = <<>> /\ result = <<>>

Init == ScriptStart /\ InterpIdle

\* the import with no except clause: the ImportError ends the run
ImportFiles_Unguarded ==
    /\ pc = "import"
    /\ files_defined' = colab_available
    /\ pc' = IF colab_available THEN "ibv_build" ELSE "aborted"
    /\ error' = IF colab_available THEN error ELSE "ImportError"
    /\ UNCHANGED <<colab_available, image_from_module_space,
                   num_optimization_steps, optimizer, sessions,
                   interpolated_images_out, target_image, vector, trajectory, it,
                   im_out, loss_out, images, losses, printed, result>>
    /\ UNCHANGED ivars

\* try: from google.colab import files / except ImportError: pass
ImportFiles ==
    /\ pc = "import"
    /\ files_defined' = colab_available
    /\ pc' = "ibv_build"
    /\ UNCHANGED <<error, colab_available, image_from_module_space,
                   num_optimization_steps, optimizer, sessions,
                   interpolated_images_out, target_image, vector, trajectory, it,
                   im_out, loss_out, images, losses, printed, result>>
    /\ UNCHANGED ivars

\* the positions at which a graph is built and the module loaded
BuildPcs == {"ibv_build", "gms_build", "fclv_build"}

\* the positions inside a with tf.Session() block
SessionPcs == {"ibv_init", "ibv_run", "gms_init", "gms_run", "fclv_init",
               "fclv_loop", "fclv_append_image", "fclv_append_loss", "fclv_print"}

\* the positions of the session.run calls
SessionRunPcs == {"ibv_init", "ibv_run", "gms_init", "gms_run", "fclv_init", "fclv_loop"}

\* hub.Module(...) fails to fetch the module: the run ends
ModuleLoadFails ==
    /\ pc \in BuildPcs
    /\ pc' = "aborted"
    /\ error' = "ModuleLoadError"
    /\ UNCHANGED <<colab_available, files_defined, image_from_module_space,
                   num_optimization_steps, optimizer, sessions,
                   interpolated_images_out, target_image, vector, trajectory, it,
                   im_out, loss_out, images, losses, printed, result>>
    /\ UNCHANGED ivars

\* a session.run that raises, the session left open
SessionRunFails_SessionLeftOpen ==
    /\ pc \in SessionRunPcs
    /\ (pc = "fclv_loop" => it < num_optimization_steps)
    /\ pc' = "aborted"
    /\ error' = "OpError"
    /\ UNCHANGED <<colab_available, files_defined, image_from_module_space,
                   num_optimization_steps, optimizer, sessions,
                   interpolated_images_out, target_image, vector, trajectory, it,
                   im_out, loss_out, images, losses, printed, result>>
    /\ UNCHANGED ivars

\* session.run raises: the with block closes the session, and the run ends
SessionRunFails ==
    /\ pc \in SessionRunPcs
    /\ (pc = "fclv_loop" => it < num_optimization_steps)
    /\ sessions' = sessions - 1
    /\ pc' = "aborted"
    /\ error' = "OpError"
    /\ UNCHANGED <<colab_available, files_defined, image_from_module_space,
                   num_optimization_steps, optimizer,
                   interpolated_images_out, target_image, vector, trajectory, it,
                   im_out, loss_out, images, losses, printed, result>>
    /\ UNCHANGED ivars

\* ---- interpolate_between_vectors
\* the graph of the pipeline: the module, v1, v2, the path and its images
IBV_Build ==
    /\ pc = "ibv_build"
    /\ pc' = "ibv_open"
    /\ UNCHANGED <<error, colab_available, files_defined, image_from_module_space,
                   num_optimization_steps, optimizer, sessions,
                   interpolated_images_out, target_image, vector, trajectory, it,
                   im_out, loss_out, images, losses, printed, result>>
    /\ UNCHANGED ivars

\* with tf.Session() as session
IBV_OpenSession ==
    /\ pc = "ibv_open"
    /\ sessions' = sessions + 1
    /\ pc' = "ibv_init"
    /\ UNCHANGED <<error, colab_available, files_defined, image_from_module_space,
                   num_optimization_steps, optimizer,
                   interpolated_images_out, target_image, vector, trajectory, it,
                   im_out, loss_out, images, losses, printed, result>>
    /\ UNCHANGED ivars

\* session.run(tf.global_variables_initializer())
IBV_RunInit ==
    /\ pc = "ibv_init"
    /\ pc' = "ibv_run"
    /\ UNCHANGED <<error, colab_available, files_defined, image_from_module_space,
                   num_optimization_steps, optimizer, sessions,
                   interpolated_images_out, target_image, vector, trajectory, it,
                   im_out, loss_out, images, losses, printed, result>>
    /\ UNCHANGED ivars

\* interpolated_images_out = session.run(interpolated_images), then the
\* session is closed on leaving the with block
IBV_RunImages ==
    /\ pc = "ibv_run"
    /\ interpolated_images_out' =
          LET path == interpolate_hypersphere(RandomNormal(3), RandomNormal(1),
                                              InterpolationSteps)
          IN  [k \in 1..Len(path) |-> Generate(path[k])]
    /\ sessions' = sessions - 1
    /\ pc' = "ibv_animate"
    /\ UNCHANGED <<error, colab_available, files_defined, image_from_module_space,
                   num_optimization_steps, optimizer,
                   target_image, vector, trajectory, it,
                   im_out, loss_out, images, losses, printed, result>>
    /\ UNCHANGED ivars

\* animate(interpolated_images_out)
IBV_Animate ==
    /\ pc = "ibv_animate"
    /\ pc' = "select_target"
    /\ UNCHANGED <<error, colab_available, files_defined, image_from_module_space,
                   num_optimization_steps, optimizer, sessions,
                   interpolated_images_out, target_image, vector, trajectory, it,
                   im_out, loss_out, images, losses, printed, result>>
    /\ UNCHANGED ivars

\* ---- the target image
SelectTarget ==
    /\ pc = "select_target"
    /\ pc' = IF image_from_module_space THEN "gms_build" ELSE "upload"
    /\ UNCHANGED <<error, colab_available, files_defined, image_from_module_space,
                   num_optimization_steps, optimizer, sessions,
                   interpolated_images_out, target_image, vector, trajectory, it,
                   im_out, loss_out, images, losses, printed, result>>
    /\ UNCHANGED ivars

\* the graph of get_module_space_image: the module, the vector, its image
GMS_Build ==
    /\ pc = "gms_build"
    /\ pc' = "gms_open"
    /\ UNCHANGED <<error, colab_available, files_defined, image_from_module_space,
                   num_optimization_steps, optimizer, sessions,
                   interpolated_images_out, target_image, vector, trajectory, it,
                   im_out, loss_out, images, losses, printed, result>>
    /\ UNCHANGED ivars

\* with tf.Session() as session
GMS_OpenSession ==
    /\ pc = "gms_open"
    /\ sessions' = sessions + 1
    /\ pc' = "gms_init"
    /\ UNCHANGED <<error, colab_available, files_defined, image_from_module_space,
                   num_optimization_steps, optimizer,
                   interpolated_images_out, target_image, vector, trajectory, it,
                   im_out, loss_out, images, losses, printed, result>>
    /\ UNCHANGED ivars

\* session.run(tf.global_variables_initializer())
GMS_RunInit ==
    /\ pc = "gms_init"
    /\ pc' = "gms_run"
    /\ UNCHANGED <<error, colab_available, files_defined, image_from_module_space,
                   num_optimization_steps, optimizer, sessions,
                   interpolated_images_out, target_image, vector, trajectory, it,
                   im_out, loss_out, images, losses, printed, result>>
    /\ UNCHANGED ivars

\* image_out = session.run(images)[0]; the session is closed and
\* target_image = get_module_space_image()
GMS_RunImage ==
    /\ pc = "gms_run"
    /\ target_image' = ImageArray(3, Generate(RandomNormal(4)))
    /\ sessions' = sessions - 1
    /\ pc' = "display_target"
    /\ UNCHANGED <<error, colab_available, files_defined, image_from_module_space,
                   num_optimization_steps, optimizer,
                   interpolated_images_out, vector, trajectory, it,
                   im_out, loss_out, images, losses, printed, result>>
    /\ UNCHANGED ivars

\* upload_image where the name files is not defined
UploadImage_NameError ==
    /\ pc = "upload" /\ ~files_defined
    /\ pc' = "aborted"
    /\ error' = "NameError"
    /\ UNCHANGED <<colab_available, files_defined, image_from_module_space,
                   num_optimization_steps, optimizer, sessions,
                   interpolated_images_out, target_image, vector, trajectory, it,
                   im_out, loss_out, images, losses, printed, result>>
    /\ UNCHANGED ivars

\* target_image = upload_image()
UploadImage ==
    /\ pc = "upload" /\ files_defined
    /\ \E img \in UploadedImages : target_image' = img
    /\ pc' = "display_target"
    /\ UNCHANGED <<error, colab_available, files_defined, image_from_module_space,
                   num_optimization_steps, optimizer, sessions,
                   interpolated_images_out, vector, trajectory, it,
                   im_out, loss_out, images, losses, printed, result>>
    /\ UNCHANGED ivars

\* files.upload() returns no file: list(uploaded.keys())[0] raises
UploadImage_NoFile ==
    /\ pc = "upload" /\ files_defined
    /\ pc' = "aborted"
    /\ error' = "IndexError"
    /\ UNCHANGED <<colab_available, files_defined, image_from_module_space,
                   num_optimization_steps, optimizer, sessions,
                   interpolated_images_out, target_image, vector, trajectory, it,
                   im_out, loss_out, images, losses, printed, result>>
    /\ UNCHANGED ivars

\* display_image(target_image)
DisplayTarget ==
    /\ pc = "display_target"
    /\ pc' = "fclv_enter"
    /\ UNCHANGED <<error, colab_available, files_defined, image_from_module_space,
                   num_optimization_steps, optimizer, sessions,
                   interpolated_images_out, target_image, vector, trajectory, it,
                   im_out, loss_out, images, losses, printed, result>>
    /\ UNCHANGED ivars

\* ---- find_closest_latent_vector(num_optimization_steps)
FCLV_Enter ==
    /\ pc = "fclv_enter"
    /\ images' = <<>>
    /\ losses' = <<>>
    /\ pc' = "fclv_build"
    /\ UNCHANGED <<error, colab_available, files_defined, image_from_module_space,
                   num_optimization_steps, optimizer, sessions,
                   interpolated_images_out, target_image, vector, trajectory, it,
                   im_out, loss_out, printed, result>>
    /\ UNCHANGED ivars

\* the graph: the module, the variable, the loss and the train op
FCLV_Build ==
    /\ pc = "fclv_build"
    /\ IF target_image.rank < 3
       THEN pc' = "aborted" /\ error' = "IndexError"
       ELSE IF Len(TargetSlice(target_image)) # 3
       THEN pc' = "aborted" /\ error' = "ValueError"
       ELSE pc' = "fclv_open" /\ error' = error
    /\ UNCHANGED <<colab_available, files_defined, image_from_module_space,
                   num_optimization_steps, optimizer, sessions,
                   interpolated_images_out, target_image, vector, trajectory, it,
                   im_out, loss_out, images, losses, printed, result>>
    /\ UNCHANGED ivars

\* with tf.Session() as session
FCLV_OpenSession ==
    /\ pc = "fclv_open"
    /\ sessions' = sessions + 1
    /\ pc' = "fclv_init"
    /\ UNCHANGED <<error, colab_available, files_defined, image_from_module_space,
                   num_optimization_steps, optimizer,
                   interpolated_images_out, target_image, vector, trajectory, it,
                   im_out, loss_out, images, losses, printed, result>>
    /\ UNCHANGED ivars

\* session.run(tf.global_variables_initializer()): vector = initial_vector
FCLV_RunInit ==
    /\ pc = "fclv_init"
    /\ vector' = RandomNormal(5)
    /\ trajectory' = <<RandomNormal(5)>>
    /\ it' = 0
    /\ pc' = "fclv_loop"
    /\ UNCHANGED <<error, colab_available, files_defined, image_from_module_space,
                   num_optimization_steps, optimizer, sessions,
                   interpolated_images_out, target_image,
                   im_out, loss_out, images, losses, printed, result>>
    /\ UNCHANGED ivars

\* the train op applied before the image and the loss are computed
FCLV_RunStep_UpdateFirst ==
    /\ pc = "fclv_loop" /\ it < num_optimization_steps
    /\ it' = it + 1
    /\ vector' = optimizer[vector]
    /\ im_out' = Generate(vector')
    /\ loss_out' = Loss(Generate(vector'), target_image, vector')
    /\ trajectory' = Append(trajectory, vector')
    /\ pc' = "fclv_append_image"
    /\ UNCHANGED <<error, colab_available, files_defined, image_from_module_space,
                   num_optimization_steps, optimizer, sessions,
                   interpolated_images_out, target_image,
                   images, losses, printed, result>>
    /\ UNCHANGED ivars

\* _, loss_out, im_out = session.run([train, loss, image]): the image and the
\* loss of the current vector, and one update of the vector
FCLV_RunStep ==
    /\ pc = "fclv_loop" /\ it < num_optimization_steps
    /\ it' = it + 1
    /\ im_out' = Generate(vector)
    /\ loss_out' = Loss(Generate(vector), target_image, vector)
    /\ vector' = optimizer[vector]
    /\ trajectory' = Append(trajectory, vector')
    /\ pc' = "fclv_append_image"
    /\ UNCHANGED <<error, colab_available, files_defined, image_from_module_space,
                   num_optimization_steps, optimizer, sessions,
                   interpolated_images_out, target_image,
                   images, losses, printed, result>>
    /\ UNCHANGED ivars

\* the image history overwritten with the latest image
FCLV_AppendImage_Overwrite ==
    /\ pc = "fclv_append_image"
    /\ images' = <<im_out>>
    /\ pc' = "fclv_append_loss"
    /\ UNCHANGED <<error, colab_available, files_defined, image_from_module_space,
                   num_optimization_steps, optimizer, sessions,
                   interpolated_images_out, target_image, vector, trajectory, it,
                   im_out, loss_out, losses, printed, result>>
    /\ UNCHANGED ivars

\* images.append(im_out[0])
FCLV_AppendImage ==
    /\ pc = "fclv_append_image"
    /\ images' = Append(images, im_out)
    /\ pc' = "fclv_append_loss"
    /\ UNCHANGED <<error, colab_available, files_defined, image_from_module_space,
                   num_optimization_steps, optimizer, sessions,
                   interpolated_images_out, target_image, vector, trajectory, it,
                   im_out, loss_out, losses, printed, result>>
    /\ UNCHANGED ivars

\* losses.append(loss_out)
FCLV_AppendLoss ==
    /\ pc = "fclv_append_loss"
    /\ losses' = Append(losses, loss_out)
    /\ pc' = "fclv_print"
    /\ UNCHANGED <<error, colab_available, files_defined, image_from_module_space,
                   num_optimization_steps, optimizer, sessions,
                   interpolated_images_out, target_image, vector, trajectory, it,
                   im_out, loss_out, images, printed, result>>
    /\ UNCHANGED ivars

\* print(loss_out)
FCLV_Print ==
    /\ pc = "fclv_print"
    /\ printed' = Append(printed, loss_out)
    /\ pc' = "fclv_loop"
    /\ UNCHANGED <<error, colab_available, files_defined, image_from_module_space,
                   num_optimization_steps, optimizer, sessions,
                   interpolated_images_out, target_image, vector, trajectory, it,
                   im_out, loss_out, images, losses, result>>
    /\ UNCHANGED ivars

\* the loop left as soon as a loss of zero has been recorded
FCLV_Return_OnConvergence ==
    /\ pc = "fclv_loop"
    /\ \/ it = num_optimization_steps
       \/ (losses # <<>> /\ losses[Len(losses)] = Num(0))
    /\ sessions' = sessions - 1
    /\ result' = <<images, losses>>
    /\ pc' = "display_result"
    /\ UNCHANGED <<error, colab_available, files_defined, image_from_module_space,
                   num_optimization_steps, optimizer,
                   interpolated_images_out, target_image, vector, trajectory, it,
                   im_out, loss_out, images, losses, printed>>
    /\ UNCHANGED ivars

\* range(num_optimization_steps) is exhausted: the session is closed and
\* result = (images, losses)
FCLV_Return ==
    /\ pc = "fclv_loop" /\ it = num_optimization_steps
    /\ sessions' = sessions - 1
    /\ result' = <<images, losses>>
    /\ pc' = "display_result"
    /\ UNCHANGED <<error, colab_available, files_defined, image_from_module_space,
                   num_optimization_steps, optimizer,
                   interpolated_images_out, target_image, vector, trajectory, it,
                   im_out, loss_out, images, losses, printed>>
    /\ UNCHANGED ivars

\* display_images(result[0], captions)
DisplayImages ==
    /\ pc = "display_result"
    /\ IF DisplayImagesFits(Len(result[1]))
       THEN pc' = "done" /\ error' = error
       ELSE pc' = "aborted" /\ error' = "IndexError"
    /\ UNCHANGED <<colab_available, files_defined, image_from_module_space,
                   num_optimization_steps, optimizer, sessions,
                   interpolated_images_out, target_image, vector, trajectory, it,
                   im_out, loss_out, images, losses, printed, result>>
    /\ UNCHANGED ivars

Next ==
    \/ ImportFiles
    \/ ModuleLoadFails
    \/ SessionRunFails
    \/ IBV_Build
    \/ IBV_OpenSession
    \/ IBV_RunInit
    \/ IBV_RunImages
    \/ IBV_Animate
    \/ SelectTarget
    \/ GMS_Build
    \/ GMS_OpenSession
    \/ GMS_RunInit
    \/ GMS_RunImage
    \/ UploadImage_NameError
    \/ UploadImage
    \/ UploadImage_NoFile
    \/ DisplayTarget
    \/ FCLV_Enter
    \/ FCLV_Build
    \/ FCLV_OpenSession
    \/ FCLV_RunInit
    \/ FCLV_RunStep
    \/ FCLV_AppendImage
    \/ FCLV_AppendLoss
    \/ FCLV_Print
    \/ FCLV_Return
    \/ DisplayImages

Spec == Init /\ [][Next]_vars

\* the program keeps executing: a run stops only at its end or at an error
FairSpec == Spec /\ WF_vars(Next)

\* ------------------- properties of interpolate_hypersphere ------------
IsZero(a) == \A i \in 1..Len(a) : a[i].v = 0

\* a and b lie on one line through the origin
Collinear(a, b) ==
    \A i, j \in 1..Len(a) : a[i].v * b[j].v = a[j].v * b[i].v

\* the precondition of the function: non-zero, non-collinear inputs, n >= 2
ValidInputs == ~IsZero(v1) /\ ~IsZero(v2) /\ ~Collinear(v1, v2) /\ num_steps >= 2

Close(x, y) == Abs(x - y) <= Tol

IsFiniteVec(a) == \A i \in 1..Len(a) : IsFinite(a[i])

\* the norm of the finite vector a, from its coordinates
Length(a) == ISqrt(SumSq(a, Len(a)))

\* coordinate i of the exact mix (n-1-s)*a + s*b
MixCoord(a, b, s, n, i) == (n - 1 - s) * a[i].v + s * b[i].v

MixLength(a, b, s, n) ==
    Length([i \in 1..Len(a) |-> Num(MixCoord(a, b, s, n, i))])

\* the point at fraction s/(n-1) of the segment from a to b, scaled to length r,
\* computed in integers with a single rounding
IdealPoint(a, b, s, n, r) ==
    [i \in 1..Len(a) |->
        Sgn(MixCoord(a, b, s, n, i))
          * RDiv(Abs(MixCoord(a, b, s, n, i)) * r, MixLength(a, b, s, n))]

\* the norm of a is that of b, within the rounding tolerance
SameLength(a, b) ==
    /\ SumSq(a, Len(a)) <= (Length(b) + Tol) * (Length(b) + Tol)
    /\ SumSq(a, Len(a)) >= (Length(b) - Tol) * (Length(b) - Tol)

\* C1: for n >= 2 and non-zero, non-collinear inputs of equal dimensionality,
\* the returned path has exactly n vectors of the inputs' dimensionality, and
\* its k-th vector (k = 0..n-1) is the point at fraction k/(n-1) of the segment
\* from v1 to v2_normalized, projected to the sphere of radius |v1|.
C1_PathOfNPoints ==
    (ipc = "returned" /\ ValidInputs) =>
        /\ Len(stacked) = num_steps
        /\ \A k \in 1..Len(stacked) :
              /\ Len(stacked[k]) = Len(v1)
              /\ IsFiniteVec(stacked[k])
              /\ \A i \in 1..Len(v1) :
                    Close(stacked[k][i].v,
                          IdealPoint(v1, v2_normalized, k - 1, num_steps, Length(v1))[i])

C1_Witness ==
    /\ ipc = "returned" /\ ValidInputs
    /\ num_steps = MaxSteps /\ Len(stacked) = MaxSteps
    /\ Length(v1) # Length(v2)

\* C2: for n >= 2 and non-zero, non-collinear inputs, every vector appended to
\* the path (hence every vector of the returned path) has the norm of v1,
\* within the rounding tolerance, and no interpolated norm a point is divided
\* by is zero.
C2_NormOfV1 ==
    ValidInputs =>
        /\ step > 0 => (IsFinite(interpolated_norm) /\ interpolated_norm.v > 0)
        /\ vectors # <<>> =>
              (IsFiniteVec(vectors[Len(vectors)])
               /\ SameLength(vectors[Len(vectors)], v1))
        /\ ipc = "returned" => stacked = vectors

\* an intermediate point whose interpolated norm is well below |v1|
C2_Witness ==
    /\ ipc = "loop" /\ ValidInputs /\ step >= 2 /\ Len(vectors) = step
    /\ Length(v1) # Length(v2)
    /\ interpolated_norm.v < v1_norm.v - 2 * Tol

\* v2 rescaled to the norm of v1, in integers with a single rounding
V2Rescaled ==
    [i \in 1..Len(v2) |->
        Sgn(v2[i].v) * RDiv(Abs(v2[i].v) * Length(v1), Length(v2))]

\* C3: for n >= 2 the first vector of the path is v1 and the last is v2
\* rescaled to the norm of v1 (within the rounding tolerance); for v1=[1,0],
\* v2=[0,2], n=3 the path is [1,0], the normalized midpoint of [1,0] and
\* [0,1], then [0,1].
C3_Endpoints ==
    (ipc = "returned" /\ ValidInputs) =>
        /\ stacked[1] = v1
        /\ \A i \in 1..Len(v2) : Close(stacked[num_steps][i].v, V2Rescaled[i])
        /\ (v1 = ScenarioV1 /\ v2 = ScenarioV2 /\ num_steps = 3) =>
              /\ stacked[1] = Tensor(<<1, 0>>)
              /\ Close(stacked[2][1].v, ISqrt((Scale * Scale) \div 2))
              /\ Close(stacked[2][2].v, ISqrt((Scale * Scale) \div 2))
              /\ Close(stacked[3][1].v, 0)
              /\ Close(stacked[3][2].v, Scale)

C3_Witness ==
    /\ ipc = "returned" /\ v1 = ScenarioV1 /\ v2 = ScenarioV2 /\ num_steps = 3
    /\ Len(stacked) = 3

\* C4: a call with num_steps = 1 never returns a path (it raises instead of
\* dividing by num_steps - 1 = 0).
C4_OneStepRejected == ~(ipc = "returned" /\ num_steps = 1)

\* ----------------------- properties of the script ---------------------
\* the positions in the middle of one optimization step
StepPcs == {"fclv_append_image", "fclv_append_loss", "fclv_print"}

\* find_closest_latent_vector has returned
Returned == result # <<>>

IsPrefix(a, b) == Len(a) <= Len(b) /\ SubSeq(b, 1, Len(a)) = a

C6_FixedStepCount ==
    /\ [](/\ it <= num_optimization_steps
          /\ Len(trajectory) <= num_optimization_steps + 1
          /\ Returned => (it = num_optimization_steps
                          /\ Len(trajectory) = num_optimization_steps + 1))
    /\ [][(pc = "fclv_loop" /\ pc' = "display_result") =>
             it = num_optimization_steps]_vars
    /\ (pc = "fclv_loop") ~> (Returned \/ error = "OpError")

\* a run that observed a loss of zero and went on to the last step
C6_Witness ==
    /\ Returned /\ num_optimization_steps >= 3 /\ error = "none"
    /\ losses[2] = Num(0)
    /\ it = num_optimization_steps

\* the target image has four channels
IsRGBA(t) == t # <<>> /\ t.rank = 3 /\ Len(t.px) = 4

\* the mean absolute difference over the channels 1..3 of image and target
MeanOfFirstThree(image, t) ==
    FDiv(Num(Abs(image[1].v - t.px[1].v) + Abs(image[2].v - t.px[2].v)
             + Abs(image[3].v - t.px[3].v)), FromInt(3))

\* C7: with a 4-channel (RGBA) target, the graph is built without a shape
\* error, every recorded loss is the difference of the generated image to the
\* first 3 channels of the target (plus the regularizer), and it is the same
\* whatever the alpha channel holds.
C7_AlphaIgnored ==
    IsRGBA(target_image) =>
        /\ ~(pc = "aborted" /\ ~Returned /\ error \in {"ValueError", "IndexError"})
        /\ \A k \in 1..Len(losses) :
              /\ losses[k] = FAdd(MeanOfFirstThree(images[k], target_image),
                                  Regularizer(trajectory[k]))
              /\ \A a \in PixelLevels :
                    losses[k] = Loss(images[k],
                                     [target_image EXCEPT !.px[4] = a],
                                     trajectory[k])

C7_Witness ==
    /\ IsRGBA(target_image) /\ target_image.px[4] = Num(Scale)
    /\ target_image.px[1] # target_image.px[2]
    /\ Returned /\ Len(losses) >= 2 /\ losses[1] # losses[2]

\* C8: at most one session is open at any time, and outside the with
\* tf.Session() blocks of the three pipelines (also after an error raised
\* inside one) no session is open.
C8_SessionsReleased ==
    /\ sessions \in {0, 1}
    /\ pc \notin SessionPcs => sessions = 0

\* a run ended by an error raised inside the session of the inversion loop
C8_Witness ==
    /\ pc = "aborted" /\ error = "OpError" /\ it >= 1 /\ sessions = 0

\* C9: in every optimization step the image and the loss are those of the
\* vector before the update of that step (the first those of the seeded
\* initial vector); the update precedes the append of the image, which
\* precedes the append of the loss, which precedes the print; the printed
\* losses are the returned losses.
C9_StepOrder ==
    /\ trajectory # <<>> => trajectory[1] = RandomNormal(5)
    /\ \A k \in 1..Len(images) : images[k] = Generate(trajectory[k])
    /\ \A k \in 1..Len(losses) :
          losses[k] = Loss(images[k], target_image, trajectory[k])
    /\ pc = "fclv_append_image" =>
          (Len(trajectory) = Len(images) + 2 /\ Len(losses) = Len(images))
    /\ pc = "fclv_append_loss" =>
          (Len(images) = Len(losses) + 1 /\ printed = losses)
    /\ pc = "fclv_print" =>
          (Len(images) = Len(losses) /\ Len(losses) = Len(printed) + 1
           /\ IsPrefix(printed, losses))
    /\ pc \notin StepPcs => printed = losses
    /\ Returned => printed = result[2]

C9_Witness ==
    /\ Returned /\ Len(images) >= 2
    /\ trajectory[1] # trajectory[2]
    /\ images[1] = Generate(RandomNormal(5)) /\ images[2] # images[1]
    /\ printed = result[2]

\* C10: the failed import of the upload hook never ends the run, and when the
\* user-supplied-image variant is skipped (image_from_module_space) the hook
\* is never referenced: no run without the hook ends on its absence.
C10_ImportGuard ==
    /\ error # "ImportError"
    /\ pc # "import" => files_defined = colab_available
    /\ (~colab_available /\ image_from_module_space) =>
          (pc # "upload" /\ error # "NameError")

\* a run without the hook that reaches the end of the script
C10_Witness ==
    /\ ~colab_available /\ ~files_defined /\ image_from_module_space
    /\ pc = "done" /\ error = "none"
====
